---- MODULE Spec2Model ----
(***************************************************************************)
(* A model of interpreter.py: the statement segmenter (get_user_input),    *)
(* the lexer, the recursive-descent Parser and the Interpreter with its    *)
(* shared symbol table.                                                    *)
(*                                                                         *)
(* Text is a sequence of one-character strings; positions are 0-based as   *)
(* in Python, so the character at position p of s is s[p + 1].             *)
(***************************************************************************)
EXTENDS Integers, Sequences, FiniteSets, TLC

VARIABLES concat_input, symbol_table, status, output, trace, steps

vars == <<concat_input, symbol_table, status, output, trace, steps>>

----------------------------------------------------------------------------
(* Characters                                                              *)

QUOTE == "\""
BACKSLASH == "\\"
SEMI == ";"
NEWLINE == "\n"

Lower == {"a", "b", "c", "d", "e", "f", "g", "h", "i", "j", "k", "l", "m",
          "n", "o", "p", "q", "r", "s", "t", "u", "v", "w", "x", "y", "z"}
Upper == {"A", "B", "C", "D", "E", "F", "G", "H", "I", "J", "K", "L", "M",
          "N", "O", "P", "Q", "R", "S", "T", "U", "V", "W", "X", "Y", "Z"}
Digits == {"0", "1", "2", "3", "4", "5", "6", "7", "8", "9"}
Letters == Lower \cup Upper
Alnum == Letters \cup Digits
\* \w of the re module (ASCII part)
WordChars == Alnum \cup {"_"}
\* \s of the re module (the characters a TLA+ string can name)
WhiteChars == {" ", "\t", "\n", "\r", "\f"}

----------------------------------------------------------------------------
(* Python string primitives                                                *)

Min(a, b) == IF a < b THEN a ELSE b

\* s[p], or "" when p is out of range (used only for look-around tests)
At(s, p) == IF p >= 0 /\ p < Len(s) THEN s[p + 1] ELSE ""

\* s[i:j] with Python's clamping of both ends (i, j >= 0)
Slice(s, i, j) == SubSeq(s, Min(i, Len(s)) + 1, Min(j, Len(s)))

\* s[i:]
SliceFrom(s, i) == Slice(s, i, Len(s))

\* s.count(c)
RECURSIVE Count(_, _)
Count(s, c) ==
    IF s = <<>> THEN 0
    ELSE (IF Head(s) = c THEN 1 ELSE 0) + Count(Tail(s), c)

\* end of the longest run of characters of class cls starting at p
RECURSIVE RunEnd(_, _, _)
RunEnd(s, p, cls) ==
    IF p < Len(s) /\ s[p + 1] \in cls THEN RunEnd(s, p + 1, cls) ELSE p

\* the literal text t occurs in s at position p
MatchText(s, p, t) ==
    /\ p + Len(t) <= Len(s)
    /\ \A k \in 1..Len(t) : s[p + k] = t[k]

\* \b at position p: exactly one of the two neighbours is a word character
Boundary(s, p) == (At(s, p - 1) \in WordChars) # (At(s, p) \in WordChars)

----------------------------------------------------------------------------
(* The token patterns, in trial order                                      *)

KwAppend == <<"a", "p", "p", "e", "n", "d">>
KwExit == <<"e", "x", "i", "t">>
KwList == <<"l", "i", "s", "t">>
KwPrintLength == <<"p", "r", "i", "n", "t", "l", "e", "n", "g", "t", "h">>
KwPrintWords == <<"p", "r", "i", "n", "t", "w", "o", "r", "d", "s">>
KwPrintWordCount ==
    <<"p", "r", "i", "n", "t", "w", "o", "r", "d", "c", "o", "u", "n", "t">>
KwPrint == <<"p", "r", "i", "n", "t">>
KwReverse == <<"r", "e", "v", "e", "r", "s", "e">>
KwSet == <<"s", "e", "t">>
CoTab == <<"T", "A", "B">>
CoSpace == <<"S", "P", "A", "C", "E">>
CoNewline == <<"N", "E", "W", "L", "I", "N", "E">>

\* token types in the order in which lexer() tries them
patterns == <<"APPEND", "EXIT", "LIST", "PRINTLENGTH", "PRINTWORDS",
              "PRINTWORDCOUNT", "PRINT", "REVERSE", "SET", "CONSTANT",
              "END", "PLUS", "ID", "LITERAL", "WHITESPACE">>

KeywordText(type) ==
    CASE type = "APPEND" -> KwAppend
      [] type = "EXIT" -> KwExit
      [] type = "LIST" -> KwList
      [] type = "PRINTLENGTH" -> KwPrintLength
      [] type = "PRINTWORDS" -> KwPrintWords
      [] type = "PRINTWORDCOUNT" -> KwPrintWordCount
      [] type = "PRINT" -> KwPrint
      [] type = "REVERSE" -> KwReverse
      [] type = "SET" -> KwSet

Keywords == {"APPEND", "EXIT", "LIST", "PRINTLENGTH", "PRINTWORDS",
             "PRINTWORDCOUNT", "PRINT", "REVERSE", "SET"}

\* \bkeyword\b
KeywordEnd(s, p, t) ==
    IF Boundary(s, p) /\ MatchText(s, p, t) /\ Boundary(s, p + Len(t))
    THEN p + Len(t) ELSE -1

\* TAB|SPACE|NEWLINE (no \b on either side)
ConstantEnd(s, p) ==
    IF MatchText(s, p, CoTab) THEN p + Len(CoTab)
    ELSE IF MatchText(s, p, CoSpace) THEN p + Len(CoSpace)
    ELSE IF MatchText(s, p, CoNewline) THEN p + Len(CoNewline)
    ELSE -1

\* [a-zA-Z][a-zA-Z0-9]*
IdEnd(s, p) == IF At(s, p) \in Letters THEN RunEnd(s, p + 1, Alnum) ELSE -1

\* the body and closing quote of "(?:\\.|[^"\\])*"
RECURSIVE LiteralBodyEnd(_, _)
LiteralBodyEnd(s, p) ==
    IF p >= Len(s) THEN -1
    ELSE IF s[p + 1] = QUOTE THEN p + 1
    ELSE IF s[p + 1] = BACKSLASH
         THEN IF p + 1 < Len(s) /\ s[p + 2] # NEWLINE
              THEN LiteralBodyEnd(s, p + 2) ELSE -1
    ELSE LiteralBodyEnd(s, p + 1)

LiteralEnd(s, p) == IF At(s, p) = QUOTE THEN LiteralBodyEnd(s, p + 1) ELSE -1

\* \s+|\\t+|\\n+
WhitespaceEnd(s, p) ==
    IF At(s, p) \in WhiteChars THEN RunEnd(s, p, WhiteChars)
    ELSE IF At(s, p) = BACKSLASH /\ At(s, p + 1) = "t"
         THEN RunEnd(s, p + 1, {"t"})
    ELSE IF At(s, p) = BACKSLASH /\ At(s, p + 1) = "n"
         THEN RunEnd(s, p + 1, {"n"})
    ELSE -1

\* regex.match(input_string, pos).end() for one pattern, -1 for no match
MatchEnd(type, s, p) ==
    CASE type \in Keywords -> KeywordEnd(s, p, KeywordText(type))
      [] type = "CONSTANT" -> ConstantEnd(s, p)
      [] type = "END" -> IF At(s, p) = SEMI THEN p + 1 ELSE -1
      [] type = "PLUS" -> IF At(s, p) = "+" THEN p + 1 ELSE -1
      [] type = "ID" -> IdEnd(s, p)
      [] type = "LITERAL" -> LiteralEnd(s, p)
      [] type = "WHITESPACE" -> WhitespaceEnd(s, p)

\* re.sub(r'\\"', '"', value)
RECURSIVE Unescape(_)
Unescape(v) ==
    IF v = <<>> THEN <<>>
    ELSE IF Len(v) >= 2 /\ v[1] = BACKSLASH /\ v[2] = QUOTE
         THEN <<QUOTE>> \o Unescape(SubSeq(v, 3, Len(v)))
    ELSE <<v[1]>> \o Unescape(Tail(v))

\* the value stored with a token of the given type matched at [p, e)
TokenValue(type, s, p, e) ==
    IF type = "LITERAL" THEN Unescape(Slice(s, p + 1, e - 1))
    ELSE Slice(s, p, e)

\* the first pattern, in trial order, that matches at p (0 when none does)
FirstMatch(s, p) ==
    LET hits == {i \in 1..Len(patterns) : MatchEnd(patterns[i], s, p) >= 0}
    IN  IF hits = {} THEN 0
        ELSE CHOOSE i \in hits : \A j \in hits : i <= j

\* lexer(input_string): ok with the token list, or the ValueError position
RECURSIVE LexFrom(_, _, _)
LexFrom(s, p, tokens) ==
    IF p >= Len(s) THEN [ok |-> TRUE, tokens |-> tokens, pos |-> p]
    ELSE LET i == FirstMatch(s, p)
         IN  IF i = 0 THEN [ok |-> FALSE, tokens |-> <<>>, pos |-> p]
             ELSE LET type == patterns[i]
                      e == MatchEnd(type, s, p)
                  IN  LexFrom(s, e,
                          IF type = "WHITESPACE" THEN tokens
                          ELSE Append(tokens,
                                      <<type, TokenValue(type, s, p, e)>>))

lexer(input_string) == LexFrom(input_string, 0, <<>>)

----------------------------------------------------------------------------
(* The Interpreter and its symbol table: a list of <<name, value>> records *)

\* messages written by print(), one tuple per call
MsgExpected(expected, tok) == <<"Expected", expected, tok[1], tok[2]>>
MsgInvalidExpression == <<"InvalidExpression">>
MsgNotRecognised(tokens) ==
    <<"NotRecognised", [i \in 1..Len(tokens) |-> tokens[i][2]]>>
MsgAppendFailed(name) == <<"AppendFailed", name>>
MsgReverseFailed(name) == <<"ReverseFailed", name>>
MsgNoVariable(name) == <<"NoVariable", name>>
MsgCannotPrint == <<"CannotPrint">>
MsgLexError(pos, char) == <<"UnexpectedToken", pos, char>>

\* get_table_record: index of the record (1-based), 0 for None
get_table_record(table, target_var) ==
    LET found == {i \in 1..Len(table) : table[i][1] = target_var}
    IN  IF found = {} THEN 0
        ELSE CHOOSE i \in found : \A j \in found : i <= j

\* list.index(record): the first position holding an equal tuple
ListIndex(table, record) ==
    CHOOSE i \in 1..Len(table) :
        /\ table[i] = record
        /\ \A j \in 1..(i - 1) : table[j] # record

\* eval_expression over tokens[start..end] (0-based, inclusive)
RECURSIVE EvalFrom(_, _, _, _, _)
EvalFrom(tokens, table, i, end, concat_str) ==
    IF i > end THEN [ok |-> TRUE, value |-> concat_str, out |-> <<>>]
    ELSE LET token == tokens[i + 1][1]
             value == tokens[i + 1][2]
         IN  IF token = "ID"
             THEN LET record == get_table_record(table, value)
                  IN  IF record # 0
                      THEN EvalFrom(tokens, table, i + 1, end,
                                    concat_str \o table[record][2])
                      ELSE [ok |-> FALSE, value |-> <<>>,
                            out |-> <<MsgNoVariable(value)>>]
             ELSE IF token = "LITERAL"
             THEN EvalFrom(tokens, table, i + 1, end, concat_str \o value)
             ELSE IF token = "CONSTANT"
             THEN EvalFrom(tokens, table, i + 1, end,
                           concat_str \o
                           (IF value = CoSpace THEN <<" ">>
                            ELSE IF value = CoTab THEN <<"\t">>
                            ELSE <<"\n">>))
             ELSE EvalFrom(tokens, table, i + 1, end, concat_str)

eval_expression(tokens, table, start, end) ==
    EvalFrom(tokens, table, start, end, <<>>)

\* table[index] = record
Replace(table, index, record) == [table EXCEPT ![index] = record]

do_append(tokens, table, expr_start, expr_end) ==
    LET var_name == tokens[2][2]
        evaluated_expr == eval_expression(tokens, table, expr_start, expr_end)
        record == get_table_record(table, var_name)
    IN  IF record # 0
        THEN IF evaluated_expr.ok
             THEN [table |-> Replace(table, ListIndex(table, table[record]),
                                     <<var_name, table[record][2]
                                                 \o evaluated_expr.value>>),
                   out |-> evaluated_expr.out]
             ELSE [table |-> table, out |-> evaluated_expr.out]
        ELSE [table |-> table,
              out |-> evaluated_expr.out \o <<MsgAppendFailed(var_name)>>]

\* do_set storing a value although the evaluation failed
do_set_unchecked(tokens, table, expr_start, expr_end) ==
    LET var_name == tokens[2][2]
        evaluated_expr == eval_expression(tokens, table, expr_start, expr_end)
        record == get_table_record(table, var_name)
    IN  IF record # 0
        THEN [table |-> Replace(table, ListIndex(table, table[record]),
                                <<var_name, evaluated_expr.value>>),
              out |-> evaluated_expr.out]
        ELSE [table |-> Append(table, <<var_name, evaluated_expr.value>>),
              out |-> evaluated_expr.out]

\* do_set overwriting by removing the old record and appending the new one
do_set_reappend(tokens, table, expr_start, expr_end) ==
    LET var_name == tokens[2][2]
        evaluated_expr == eval_expression(tokens, table, expr_start, expr_end)
    IN  IF evaluated_expr.ok
        THEN [table |-> Append(SelectSeq(table, LAMBDA rec : rec[1] # var_name),
                               <<var_name, evaluated_expr.value>>),
              out |-> evaluated_expr.out]
        ELSE [table |-> table, out |-> evaluated_expr.out]

do_set(tokens, table, expr_start, expr_end) ==
    LET var_name == tokens[2][2]
        evaluated_expr == eval_expression(tokens, table, expr_start, expr_end)
        record == get_table_record(table, var_name)
    IN  IF evaluated_expr.ok
        THEN IF record # 0
             THEN [table |-> Replace(table, ListIndex(table, table[record]),
                                     <<var_name, evaluated_expr.value>>),
                   out |-> evaluated_expr.out]
             ELSE [table |-> Append(table, <<var_name, evaluated_expr.value>>),
                   out |-> evaluated_expr.out]
        ELSE [table |-> table, out |-> evaluated_expr.out]

\* one match of '?[a-zA-Z0-9]+(?:['-][a-zA-Z0-9]+)*'? at p: its end, or -1
RECURSIVE WordTail(_, _)
WordTail(s, p) ==
    IF At(s, p) \in {"'", "-"} /\ At(s, p + 1) \in Alnum
    THEN WordTail(s, RunEnd(s, p + 1, Alnum))
    ELSE IF At(s, p) = "'" THEN p + 1 ELSE p

WordEnd(s, p) ==
    LET q == IF At(s, p) = "'" THEN p + 1 ELSE p
    IN  IF At(s, q) \in Alnum THEN WordTail(s, RunEnd(s, q, Alnum)) ELSE -1

\* re.findall of the word pattern
RECURSIVE FindWords(_, _)
FindWords(s, p) ==
    IF p >= Len(s) THEN <<>>
    ELSE LET e == WordEnd(s, p)
         IN  IF e < 0 THEN FindWords(s, p + 1)
             ELSE <<Slice(s, p, e)>> \o FindWords(s, e)

\* ' '.join(words[::-1])
RECURSIVE JoinReversed(_)
JoinReversed(words) ==
    IF words = <<>> THEN <<>>
    ELSE IF Len(words) = 1 THEN words[1]
    ELSE words[Len(words)] \o <<" ">>
         \o JoinReversed(SubSeq(words, 1, Len(words) - 1))

reverse(tokens, table) ==
    LET var_name == tokens[2][2]
        record == get_table_record(table, var_name)
    IN  IF record # 0
        THEN [table |-> Replace(table, ListIndex(table, table[record]),
                  <<var_name,
                    JoinReversed(FindWords(table[record][2], 0))>>),
              out |-> <<>>]
        ELSE [table |-> table, out |-> <<MsgReverseFailed(var_name)>>]

list_vars(table) ==
    [table |-> table,
     out |-> <<<<"ListHeader", Len(table)>>>>
             \o [i \in 1..Len(table) |->
                    <<"ListEntry", table[i][1], table[i][2]>>]]

expr_print(tokens, table, start, end) ==
    LET token_type == tokens[1][1]
        evaluated_expr == eval_expression(tokens, table, start, end)
        words == FindWords(evaluated_expr.value, 0)
    IN  [table |-> table,
         out |-> evaluated_expr.out \o
            (IF evaluated_expr.ok
             THEN CASE token_type = "PRINT" ->
                         <<<<"Print", evaluated_expr.value>>>>
                    [] token_type = "PRINTLENGTH" ->
                         <<<<"Length", Len(evaluated_expr.value)>>>>
                    [] token_type = "PRINTWORDS" ->
                         <<<<"WordsHeader">>>> \o
                         [i \in 1..Len(words) |-> <<"Word", words[i]>>]
                    [] token_type = "PRINTWORDCOUNT" ->
                         <<<<"WordCount", Len(words)>>>>
                    [] OTHER -> <<>>
             ELSE <<MsgCannotPrint>>)]

----------------------------------------------------------------------------
(* The Parser: currToken (None or a token) and currIndex                   *)

None == <<>>

\* Parser.__init__
ParserInit == [currToken |-> None, currIndex |-> 0]

next_token(tokens, p) ==
    IF p.currIndex < Len(tokens)
    THEN [currToken |-> tokens[p.currIndex + 1], currIndex |-> p.currIndex + 1]
    ELSE [currToken |-> None, currIndex |-> p.currIndex]

\* valid_match: subscripting currToken = None raises TypeError (crash)
valid_match(tokens, p, expected_token) ==
    IF p.currToken = None
    THEN [crash |-> TRUE, p |-> p, out |-> <<>>, mismatch |-> FALSE]
    ELSE IF p.currToken[1] = expected_token
    THEN [crash |-> FALSE, p |-> next_token(tokens, p), out |-> <<>>,
          mismatch |-> FALSE]
    ELSE [crash |-> FALSE, p |-> p,
          out |-> <<MsgExpected(expected_token, p.currToken)>>,
          mismatch |-> TRUE]

\* isvalue, for a currToken that is not None
isvalue(p) == p.currToken[1] \in {"ID", "CONSTANT", "LITERAL"}

\* the loop validating by the two counts alone, whatever the order of tokens
RECURSIVE ExpressionLoopCounting(_, _, _, _)
ExpressionLoopCounting(tokens, p, value_count, plus_count) ==
    IF p.currToken = None
    THEN [crash |-> TRUE, valid |-> FALSE, p |-> p]
    ELSE IF p.currToken[1] = "END"
    THEN [crash |-> FALSE, valid |-> (value_count - plus_count = 1), p |-> p]
    ELSE IF p.currToken[1] = "PLUS"
    THEN ExpressionLoopCounting(tokens, next_token(tokens, p),
                                value_count, plus_count + 1)
    ELSE IF isvalue(p)
    THEN ExpressionLoopCounting(tokens, next_token(tokens, p),
                                value_count + 1, plus_count)
    ELSE [crash |-> FALSE, valid |-> FALSE, p |-> p]

\* the while loop of expression(), entered with valid_expression = True
RECURSIVE ExpressionLoop(_, _, _, _)
ExpressionLoop(tokens, p, value_count, plus_count) ==
    IF p.currToken = None
    THEN [crash |-> TRUE, valid |-> FALSE, p |-> p]
    ELSE IF p.currToken[1] = "END" /\ value_count - plus_count = 1
    THEN [crash |-> FALSE, valid |-> TRUE, p |-> p]
    ELSE IF p.currToken[1] = "PLUS"
    THEN LET q == next_token(tokens, p)
         IN  IF q.currToken = None
             THEN [crash |-> TRUE, valid |-> FALSE, p |-> q]
             ELSE IF isvalue(q)
             THEN ExpressionLoop(tokens, next_token(tokens, q),
                                 value_count + 1, plus_count + 1)
             ELSE [crash |-> FALSE, valid |-> FALSE, p |-> q]
    ELSE [crash |-> FALSE, valid |-> FALSE, p |-> p]

expression(tokens, p) ==
    IF p.currToken = None
    THEN [crash |-> TRUE, valid |-> FALSE, p |-> p]
    ELSE IF isvalue(p)
    THEN ExpressionLoop(tokens, next_token(tokens, p), 1, 0)
    ELSE [crash |-> FALSE, valid |-> FALSE, p |-> p]

\* what one call of Parser.statement did:
\*   result   "ok", "exit" (exit() was called) or "crash" (TypeError)
\*   ran      the Interpreter method that was called, "exit", or "none"
\*   mismatch some valid_match reported a token of another kind
\*   expr     "none" (expression() not called), "raised" (TypeError in it),
\*            "valid" or "invalid" (what it returned)
\*   start    the index of the token expression() started at (-1 if none)
Outcome(result, table, out, ran, mismatch, expr, start) ==
    [result |-> result, table |-> table, out |-> out, ran |-> ran,
     mismatch |-> mismatch, expr |-> expr, start |-> start]

\* the APPEND / SET branch, entered with currToken = the keyword
StatementAssign(tokens, table, token, p0) ==
    LET m1 == valid_match(tokens, next_token(tokens, p0), "ID")
        expr_start == m1.p.currIndex - 1
        e == expression(tokens, m1.p)
        expr_end == e.p.currIndex - 1
        m2 == valid_match(tokens, e.p, "END")
        done == IF token = "APPEND"
                THEN do_append(tokens, table, expr_start, expr_end)
                ELSE do_set(tokens, table, expr_start, expr_end)
    IN  IF m1.crash
        THEN Outcome("crash", table, <<>>, "none", FALSE, "none", -1)
        ELSE IF e.crash
        THEN Outcome("crash", table, m1.out, "none", m1.mismatch, "raised",
                     expr_start)
        ELSE IF ~e.valid
        THEN Outcome("ok", table, m1.out \o <<MsgInvalidExpression>>, "none",
                     m1.mismatch, "invalid", expr_start)
        ELSE IF m2.crash
        THEN Outcome("crash", table, m1.out, "none", m1.mismatch, "valid",
                     expr_start)
        ELSE Outcome("ok", done.table, m1.out \o m2.out \o done.out,
                     IF token = "APPEND" THEN "do_append" ELSE "do_set",
                     m1.mismatch \/ m2.mismatch, "valid", expr_start)

\* the LIST branch
StatementList(tokens, table, p0) ==
    LET m1 == valid_match(tokens, next_token(tokens, p0), "END")
        done == list_vars(table)
    IN  IF m1.crash
        THEN Outcome("crash", table, <<>>, "none", FALSE, "none", -1)
        ELSE Outcome("ok", done.table, m1.out \o done.out, "list_vars",
                     m1.mismatch, "none", -1)

\* the EXIT branch
StatementExit(tokens, table, p0) ==
    LET m1 == valid_match(tokens, next_token(tokens, p0), "END")
    IN  IF m1.crash
        THEN Outcome("crash", table, <<>>, "none", FALSE, "none", -1)
        ELSE Outcome("exit", table, m1.out, "exit", m1.mismatch, "none", -1)

\* the REVERSE branch
StatementReverse(tokens, table, p0) ==
    LET m1 == valid_match(tokens, next_token(tokens, p0), "ID")
        m2 == valid_match(tokens, m1.p, "END")
        done == reverse(tokens, table)
    IN  IF m1.crash
        THEN Outcome("crash", table, <<>>, "none", FALSE, "none", -1)
        ELSE IF m2.crash
        THEN Outcome("crash", table, m1.out, "none", m1.mismatch, "none", -1)
        ELSE Outcome("ok", done.table, m1.out \o m2.out \o done.out,
                     "reverse", m1.mismatch \/ m2.mismatch, "none", -1)

\* the branch of the four print statements
StatementPrint(tokens, table, p0) ==
    LET p1 == next_token(tokens, p0)
        expr_start == p1.currIndex - 1
        e == expression(tokens, p1)
        expr_end == e.p.currIndex - 1
        m2 == valid_match(tokens, e.p, "END")
        done == expr_print(tokens, table, expr_start, expr_end)
    IN  IF e.crash
        THEN Outcome("crash", table, <<>>, "none", FALSE, "raised",
                     expr_start)
        ELSE IF ~e.valid
        THEN Outcome("ok", table, <<MsgInvalidExpression>>, "none", FALSE,
                     "invalid", expr_start)
        ELSE IF m2.crash
        THEN Outcome("crash", table, <<>>, "none", FALSE, "valid", expr_start)
        ELSE Outcome("ok", done.table, m2.out \o done.out, "expr_print",
                     m2.mismatch, "valid", expr_start)

\* Parser(tokens).parse(), against the shared symbol table
statement(tokens, table) ==
    LET p0 == next_token(tokens, ParserInit)
    IN  IF p0.currToken = None
        THEN Outcome("crash", table, <<>>, "none", FALSE, "none", -1)
        ELSE LET token == p0.currToken[1]
             IN  IF token = "APPEND" \/ token = "SET"
                 THEN StatementAssign(tokens, table, token, p0)
                 ELSE IF token = "LIST"
                 THEN StatementList(tokens, table, p0)
                 ELSE IF token = "EXIT"
                 THEN StatementExit(tokens, table, p0)
                 ELSE IF token = "REVERSE"
                 THEN StatementReverse(tokens, table, p0)
                 ELSE IF token \in {"PRINT", "PRINTLENGTH", "PRINTWORDS",
                                    "PRINTWORDCOUNT"}
                 THEN StatementPrint(tokens, table, p0)
                 ELSE Outcome("ok", table, <<MsgNotRecognised(tokens)>>,
                              "none", FALSE, "none", -1)

parse(tokens, table) == statement(tokens, table)

----------------------------------------------------------------------------
(* get_user_input: the read loop and the statement segmenter               *)

\* [m.end() for m in re.finditer(r';(?=(?:[^"]*"[^"]*")*[^"]*$)', s)]:
\* the position after every ';' that an even number of '"' follows
RECURSIVE EndMatchesFrom(_, _)
EndMatchesFrom(s, p) ==
    IF p >= Len(s) THEN <<>>
    ELSE IF s[p + 1] = SEMI /\ Count(SliceFrom(s, p + 1), QUOTE) % 2 = 0
    THEN <<p + 1>> \o EndMatchesFrom(s, p + 1)
    ELSE EndMatchesFrom(s, p + 1)

end_matches(s) == EndMatchesFrom(s, 0)

\* lexer(input_to_process) and, unless it raised ValueError, Parser.parse()
RunTokens(input_to_process, lx, table) ==
    IF lx.ok THEN parse(lx.tokens, table)
    ELSE Outcome("ok", table,
                 <<MsgLexError(lx.pos, At(input_to_process, lx.pos))>>,
                 "none", FALSE, "none", -1)

\* the record kept of one unit handed to lexer()
Exec(unit, lx, before) ==
    [unit |-> unit, lexok |-> lx.ok, tokens |-> lx.tokens,
     before |-> before, r |-> RunTokens(unit, lx, before)]

\* the for loop over end_matches; an uncaught TypeError or SystemExit
\* leaves the loop (and the program) with the buffer already cut
RECURSIVE ProcessUnits(_, _, _, _, _)
AfterUnit(ends, rest, execs, out, x) ==
    IF x.r.result = "ok"
    THEN ProcessUnits(ends, rest, x.r.table, Append(execs, x), out \o x.r.out)
    ELSE [buf |-> rest, table |-> x.r.table,
          status |-> IF x.r.result = "exit" THEN "exited" ELSE "crashed",
          execs |-> Append(execs, x), out |-> out \o x.r.out]

UnitAt(buf, end_pos, table) ==
    Exec(Slice(buf, 0, end_pos), lexer(Slice(buf, 0, end_pos)), table)

ProcessUnits(ends, buf, table, execs, out) ==
    IF ends = <<>>
    THEN [buf |-> buf, table |-> table, status |-> "running",
          execs |-> execs, out |-> out]
    ELSE AfterUnit(Tail(ends), SliceFrom(buf, Head(ends) + 1), execs, out,
                   UnitAt(buf, Head(ends), table))

\* one iteration of the while loop for the line that input() returned
LineResult(buf, table) ==
    IF Count(buf, QUOTE) % 2 = 1
    THEN [buf |-> buf, table |-> table, status |-> "running",
          execs |-> <<>>, out |-> <<>>]
    ELSE ProcessUnits(end_matches(buf), buf, table, <<>>, <<>>)

----------------------------------------------------------------------------
(* Bounds and inputs                                                       *)

MaxLines == 2
MaxLineLen == 4
LineChars == {"a", SEMI, QUOTE, BACKSLASH}

\* all texts over the alphabet cs of length at most n
TextsUpTo(cs, n) == UNION {[1..k -> cs] : k \in 0..n}

\* set a "x y";
LineSet ==
    <<"s", "e", "t", " ", "a", " ", "\"", "x", " ", "y", "\"", ";">>
\* set b a;
LineSetB ==
    <<"s", "e", "t", " ", "b", " ", "a", ";">>
\* append a "z";
LineAppend ==
    <<"a", "p", "p", "e", "n", "d", " ", "a", " ", "\"", "z", "\"", ";">>
\* reverse a;
LineReverse ==
    <<"r", "e", "v", "e", "r", "s", "e", " ", "a", ";">>
\* list;
LineList ==
    <<"l", "i", "s", "t", ";">>
\* print a;
LinePrint ==
    <<"p", "r", "i", "n", "t", " ", "a", ";">>
\* exit;
LineExit ==
    <<"e", "x", "i", "t", ";">>
\* list a;
LineListExtra ==
    <<"l", "i", "s", "t", " ", "a", ";">>
\* reverse a b;
LineReverseExtra ==
    <<"r", "e", "v", "e", "r", "s", "e", " ", "a", " ", "b", ";">>
\* set "x";
LineSetLiteral ==
    <<"s", "e", "t", " ", "\"", "x", "\"", ";">>
\* set a "x\"y";
LineEscaped ==
    <<"s", "e", "t", " ", "a", " ", "\"", "x", "\\", "\"", "y", "\"", ";">>
\* ; list;a;
LineThree ==
    <<";", " ", "l", "i", "s", "t", ";", "a", ";">>

SampleLines ==
    {LineSet, LineSetB, LineAppend, LineReverse, LineList, LinePrint, LineExit, LineListExtra, LineReverseExtra, LineSetLiteral, LineEscaped, LineThree}

InputLines == TextsUpTo(LineChars, MaxLineLen) \cup SampleLines

----------------------------------------------------------------------------
(* The interactive session: lines are read until exit() or a crash         *)

Init ==
    /\ concat_input = <<>>
    /\ symbol_table = <<>>
    /\ status = "running"
    /\ output = <<>>
    /\ trace = [op |-> "init"]
    /\ steps = 0

ReadLine(user_input) ==
    /\ status = "running"
    /\ steps < MaxLines
    /\ LET buf == concat_input \o user_input \o <<NEWLINE>>
           res == LineResult(buf, symbol_table)
       IN  /\ concat_input' = res.buf
           /\ symbol_table' = res.table
           /\ status' = res.status
           /\ output' = res.out
           /\ trace' = [op |-> "line", line |-> user_input, buffer |-> buf,
                        in_literal |-> (Count(buf, QUOTE) % 2 = 1),
                        execs |-> res.execs]
    /\ steps' = steps + 1

Next == \E user_input \in InputLines : ReadLine(user_input)

Spec == Init /\ [][Next]_vars

----------------------------------------------------------------------------
(* Parser(tokens).parse() applied to token lists, statement after          *)
(* statement, against the shared symbol table                              *)

MaxStmts == 4
MaxValLen == 6

TokSet == <<"SET", KwSet>>
TokAppend == <<"APPEND", KwAppend>>
TokReverse == <<"REVERSE", KwReverse>>
TokList == <<"LIST", KwList>>
TokExit == <<"EXIT", KwExit>>
TokPrint == <<"PRINT", KwPrint>>
TokPrintWords == <<"PRINTWORDS", KwPrintWords>>
TokEnd == <<"END", <<SEMI>>>>
TokPlus == <<"PLUS", <<"+">>>>
TokSpace == <<"CONSTANT", CoSpace>>
TokA == <<"ID", <<"a">>>>
TokB == <<"ID", <<"b">>>>
TokLit == <<"LITERAL", <<"x", " ", "y">>>>

IdToks == {TokA, TokB}
TermToks == {TokA, TokB, TokLit}

\* the expressions of one term and of two terms joined by PLUS
Exprs ==
    {<<t>> : t \in TermToks}
    \cup {<<t, TokPlus, u>> : t \in TermToks, u \in TermToks}

\* the token lists of the statements of the grammar, and the single tokens
StatementInputs ==
    {<<k, v>> \o e \o <<TokEnd>> :
        k \in {TokSet, TokAppend}, v \in IdToks, e \in Exprs}
    \cup {<<TokReverse, v, TokEnd>> : v \in IdToks}
    \cup {<<TokPrint, t, TokEnd>> : t \in TermToks}
    \cup {<<TokList, TokEnd>>, <<TokExit, TokEnd>>}
    \cup {<<t>> : t \in {TokList, TokEnd, TokA}}

\* the names in the order in which they were first given a value by do_set
FirstSet(first_set, tokens, before, r) ==
    IF /\ r.ran = "do_set"
       /\ r.table # before
       /\ \A i \in 1..Len(first_set) : first_set[i] # tokens[2][2]
    THEN Append(first_set, tokens[2][2])
    ELSE first_set

\* the statement replaced the value of a name that is not the last record
Overwrote(tokens, before, r) ==
    /\ r.ran \in {"do_set", "do_append", "reverse"}
    /\ r.table # before
    /\ \E i \in 1..(Len(before) - 1) : before[i][1] = tokens[2][2]

InitParser ==
    /\ concat_input = <<>>
    /\ symbol_table = <<>>
    /\ status = "running"
    /\ output = <<>>
    /\ trace = [op |-> "init", first_set |-> <<>>, overwrote |-> FALSE]
    /\ steps = 0

ParseStatement(tokens) ==
    /\ status = "running"
    /\ steps < MaxStmts
    /\ LET r == parse(tokens, symbol_table)
       IN  /\ \A i \in 1..Len(r.table) : Len(r.table[i][2]) <= MaxValLen
           /\ symbol_table' = r.table
           /\ status' = (IF r.result = "ok" THEN "running"
                         ELSE IF r.result = "exit" THEN "exited"
                         ELSE "crashed")
           /\ output' = r.out
           /\ trace' = [op |-> "stmt", tokens |-> tokens,
                        before |-> symbol_table, r |-> r,
                        first_set |-> FirstSet(trace.first_set, tokens,
                                               symbol_table, r),
                        overwrote |-> trace.overwrote
                                      \/ Overwrote(tokens, symbol_table, r)]
    /\ steps' = steps + 1
    /\ UNCHANGED concat_input

NextParser == \E tokens \in StatementInputs : ParseStatement(tokens)

SpecParser == InitParser /\ [][NextParser]_vars

----------------------------------------------------------------------------
(* Parser(tokens).parse() applied once to each token list of a keyword     *)
(* followed by any tokens an expression is made of                         *)

MaxExprLen == 5

ExprPool == {TokA, TokLit, TokSpace, TokPlus, TokEnd}
ExprHeads == {<<TokPrint>>, <<TokPrintWords>>, <<TokSet, TokA>>,
              <<TokAppend, TokA>>}
ExprInputs == {h \o b : h \in ExprHeads, b \in TextsUpTo(ExprPool, MaxExprLen)}
ExprTables == {<<>>, << <<<<"a">>, <<"x", " ", "y">>>> >>}

InitExpr ==
    /\ concat_input = <<>>
    /\ symbol_table \in ExprTables
    /\ status = "running"
    /\ output = <<>>
    /\ trace \in {[op |-> "input", tokens |-> t] : t \in ExprInputs}
    /\ steps = 0

ParseInput ==
    /\ trace.op = "input"
    /\ LET r == parse(trace.tokens, symbol_table)
       IN  /\ symbol_table' = r.table
           /\ status' = (IF r.result = "ok" THEN "running"
                         ELSE IF r.result = "exit" THEN "exited"
                         ELSE "crashed")
           /\ output' = r.out
           /\ trace' = [op |-> "stmt", tokens |-> trace.tokens,
                        before |-> symbol_table, r |-> r]
    /\ steps' = steps + 1
    /\ UNCHANGED concat_input

NextExpr == ParseInput

SpecExpr == InitExpr /\ [][NextExpr]_vars

----------------------------------------------------------------------------
(* lexer() applied once to each statement text                             *)

MaxLexLen == 5

LexChars == {"s", "e", "t", "T", "A", "B", "1", " ", SEMI}
LexInputs == TextsUpTo(LexChars, MaxLexLen)

\* the [start, end) span of every token lexer() appends, in order
RECURSIVE TokenSpans(_, _)
TokenSpans(s, p) ==
    IF p >= Len(s) THEN <<>>
    ELSE LET i == FirstMatch(s, p)
         IN  IF i = 0 THEN <<>>
             ELSE LET e == MatchEnd(patterns[i], s, p)
                  IN  (IF patterns[i] = "WHITESPACE" THEN <<>>
                       ELSE << <<p, e>> >>) \o TokenSpans(s, e)

InitLexer ==
    /\ concat_input = <<>>
    /\ symbol_table = <<>>
    /\ status = "running"
    /\ output = <<>>
    /\ trace \in {[op |-> "input", input_string |-> t] : t \in LexInputs}
    /\ steps = 0

LexInput ==
    /\ trace.op = "input"
    /\ LET lx == lexer(trace.input_string)
       IN  /\ output' = (IF lx.ok THEN <<>>
                         ELSE <<MsgLexError(lx.pos,
                                            At(trace.input_string, lx.pos))>>)
           /\ trace' = [op |-> "lexed", input_string |-> trace.input_string,
                        ok |-> lx.ok, tokens |-> lx.tokens,
                        spans |-> TokenSpans(trace.input_string, 0)]
    /\ steps' = steps + 1
    /\ UNCHANGED <<concat_input, symbol_table, status>>

NextLexer == LexInput

SpecLexer == InitLexer /\ [][NextLexer]_vars

----------------------------------------------------------------------------
(* What the specification means by a literal, a terminator and a unit      *)

\* where a reader of the LITERAL grammar stands after the first n characters:
\* "out" of any literal, "in" one, or "esc" (after a backslash in one)
RECURSIVE StateAfter(_, _)
StateAfter(s, n) ==
    IF n = 0 THEN "out"
    ELSE LET st == StateAfter(s, n - 1)
             c == s[n]
         IN  IF st = "out" THEN (IF c = QUOTE THEN "in" ELSE "out")
             ELSE IF st = "esc" THEN "in"
             ELSE IF c = QUOTE THEN "out"
             ELSE IF c = BACKSLASH THEN "esc"
             ELSE "in"

\* the number of double quotes that open or close a literal
UnescapedQuotes(s) ==
    Cardinality({n \in 1..Len(s) :
                    s[n] = QUOTE /\ StateAfter(s, n - 1) # "esc"})

\* the (1-based) places of the terminators outside literals
Terminators(s) ==
    {n \in 1..Len(s) : s[n] = SEMI /\ StateAfter(s, n - 1) = "out"}

\* the statement units of s from place n on: each runs up to and including
\* the next terminator outside literals
RECURSIVE UnitsFrom(_, _)
UnitsFrom(s, n) ==
    LET later == {t \in Terminators(s) : t >= n}
    IN  IF later = {} THEN <<>>
        ELSE LET t == CHOOSE x \in later : \A y \in later : x <= y
             IN  <<SubSeq(s, n, t)>> \o UnitsFrom(s, t + 1)

\* the text after the last terminator outside literals
TailAfterUnits(s) ==
    LET ts == Terminators(s)
    IN  IF ts = {} THEN s
        ELSE SubSeq(s, (CHOOSE x \in ts : \A y \in ts : x >= y) + 1, Len(s))

\* the units that the last line handed to lexer(), in order
UnitsHanded == [i \in 1..Len(trace.execs) |-> trace.execs[i].unit]

\* the place of the first END token (0 when there is none)
FirstEnd(tokens) ==
    LET ends == {i \in 1..Len(tokens) : tokens[i][1] = "END"}
    IN  IF ends = {} THEN 0 ELSE CHOOSE i \in ends : \A j \in ends : i <= j

----------------------------------------------------------------------------
(* Claims about the session (Spec)                                         *)

\* C1: every unit handed to lexer() ends at a ';' that lies outside all
\* literals (escaped quotes included), so no ';' inside a literal is used as
\* a statement boundary and no literal is cut in two.
C1_UnitsEndOutsideLiterals ==
    trace.op = "line" =>
        \A i \in 1..Len(trace.execs) :
            LET u == trace.execs[i].unit
            IN  /\ Len(u) > 0
                /\ u[Len(u)] = SEMI
                /\ StateAfter(u, Len(u) - 1) = "out"

\* C2: when the scanned buffer holds k >= 1 terminators outside literals,
\* exactly the k units between them are handed over, in order, and the text
\* after the last terminator stays in the buffer unchanged.
C2_UnitsAreExactSegments ==
    (/\ trace.op = "line"
     /\ ~trace.in_literal
     /\ status = "running"
     /\ Terminators(trace.buffer) # {}) =>
        /\ UnitsHanded = UnitsFrom(trace.buffer, 1)
        /\ concat_input = TailAfterUnits(trace.buffer)

\* C3: a statement for which valid_match reported a token of another kind is
\* not executed: no Interpreter method and no exit() runs for it and the
\* symbol table is the same after it as before.
C3_MismatchSkipsStatement ==
    trace.op = "line" =>
        \A i \in 1..Len(trace.execs) :
            trace.execs[i].r.mismatch =>
                /\ trace.execs[i].r.ran = "none"
                /\ trace.execs[i].r.table = trace.execs[i].before

\* C4: the read loop stops only by executing an Exit statement; no unit the
\* segmenter produces (an empty token list included) ends it otherwise.
C4_OnlyExitStops ==
    status # "running" =>
        /\ status = "exited"
        /\ trace.execs[Len(trace.execs)].r.ran = "exit"

\* C7: the buffer is taken to be inside an unterminated literal exactly when
\* the number of its unescaped double quotes is odd, so a buffer whose
\* unescaped quotes are balanced is scanned as soon as its line is read.
C7_ParityOfUnescapedQuotes ==
    trace.op = "line" =>
        (trace.in_literal <=> UnescapedQuotes(trace.buffer) % 2 = 1)

\* C9: a token list is executed only when it is exactly one statement: the
\* first END is its last token, and nothing follows it.
C9_NoTokensAfterEnd ==
    trace.op = "line" =>
        \A i \in 1..Len(trace.execs) :
            trace.execs[i].r.ran # "none" =>
                FirstEnd(trace.execs[i].tokens) = Len(trace.execs[i].tokens)

----------------------------------------------------------------------------
(* Claims about the Interpreter (SpecParser)                               *)

Names(table) == [i \in 1..Len(table) |-> table[i][1]]
Defined(table) == {table[i][1] : i \in 1..Len(table)}
Terms == {"ID", "LITERAL", "CONSTANT"}

\* tokens[from..to] (1-based) is Term (PLUS Term)*
IsExpression(tokens, from, to) ==
    /\ to >= from
    /\ (to - from) % 2 = 0
    /\ \A i \in from..to :
          IF (i - from) % 2 = 0 THEN tokens[i][1] \in Terms
          ELSE tokens[i][1] = "PLUS"

\* kw id Expression END
IsAssign(tokens, kw) ==
    /\ Len(tokens) >= 4
    /\ tokens[1][1] = kw
    /\ tokens[2][1] = "ID"
    /\ tokens[Len(tokens)][1] = "END"
    /\ IsExpression(tokens, 3, Len(tokens) - 1)

\* the expression of an assignment names a variable the table does not hold
ExprUndefined(tokens, table) ==
    \E i \in 3..(Len(tokens) - 1) :
        tokens[i][1] = "ID" /\ tokens[i][2] \notin Defined(table)

\* the four runtime errors
RuntimeError(tokens, table) ==
    \/ IsAssign(tokens, "SET") /\ ExprUndefined(tokens, table)
    \/ IsAssign(tokens, "APPEND") /\ tokens[2][2] \notin Defined(table)
    \/ IsAssign(tokens, "APPEND") /\ ExprUndefined(tokens, table)
    \/ /\ Len(tokens) = 3
       /\ tokens[1][1] = "REVERSE"
       /\ tokens[2][1] = "ID"
       /\ tokens[3][1] = "END"
       /\ tokens[2][2] \notin Defined(table)

\* C5: a Set, Append or Reverse statement that meets a runtime error (an
\* undefined variable as its target or in its expression) leaves every name
\* and every value of the symbol table as it was.
C5_RuntimeErrorKeepsTable ==
    (trace.op = "stmt" /\ RuntimeError(trace.tokens, trace.before)) =>
        symbol_table = trace.before

\* an Append to a defined variable whose expression names an undefined one,
\* run against a table that is not empty
C5_Witness ==
    /\ trace.op = "stmt"
    /\ IsAssign(trace.tokens, "APPEND")
    /\ trace.tokens[2][2] \in Defined(trace.before)
    /\ ExprUndefined(trace.tokens, trace.before)
    /\ trace.r.ran = "do_append"

\* C6: the table holds every name once, in the order in which the names were
\* first defined by Set, whatever was overwritten since; List prints the
\* count of entries and then the variables in that order.
C6_ListInFirstSetOrder ==
    trace.op = "stmt" =>
        /\ Names(symbol_table) = trace.first_set
        /\ \A i, j \in 1..Len(symbol_table) :
              symbol_table[i][1] = symbol_table[j][1] => i = j
        /\ trace.r.ran = "list_vars" =>
              /\ Len(output) = 1 + Len(trace.first_set)
              /\ output[1] = <<"ListHeader", Len(trace.first_set)>>
              /\ \A i \in 1..Len(trace.first_set) :
                    output[i + 1] = <<"ListEntry", trace.first_set[i],
                                      symbol_table[i][2]>>

\* List runs on two variables after the first of them was overwritten
C6_Witness ==
    /\ trace.op = "stmt"
    /\ trace.r.ran = "list_vars"
    /\ Len(symbol_table) = 2
    /\ trace.overwrote

----------------------------------------------------------------------------
(* Claims about Parser.expression (SpecExpr)                               *)

\* the tokens from index start (0-based) up to the first END are
\* Term (PLUS Term)*
ExpressionShape(tokens, start) ==
    LET e == FirstEnd(SubSeq(tokens, start + 1, Len(tokens)))
    IN  e # 0 /\ IsExpression(tokens, start + 1, start + e - 1)

\* C8: expression() accepts the tokens from the expression start up to the
\* first END exactly when they are Term (PLUS Term)*; when it rejects them
\* the invalid-expression error is printed and the statement is not
\* executed. (It raises instead of returning only when no END follows.)
C8_ExpressionAcceptsShape ==
    trace.op = "stmt" =>
        /\ trace.r.expr # "none"
        /\ trace.r.expr = "valid" =>
              ExpressionShape(trace.tokens, trace.r.start)
        /\ trace.r.expr = "invalid" =>
              /\ ~ExpressionShape(trace.tokens, trace.r.start)
              /\ trace.r.ran = "none"
              /\ symbol_table = trace.before
              /\ output[Len(output)] = MsgInvalidExpression
        /\ trace.r.expr = "raised" =>
              FirstEnd(SubSeq(trace.tokens, trace.r.start + 1,
                              Len(trace.tokens))) = 0

\* an expression of two terms and a PLUS is accepted and the statement runs
C8_Witness ==
    /\ trace.op = "stmt"
    /\ trace.r.expr = "valid"
    /\ trace.r.ran # "none"
    /\ trace.tokens[trace.r.start + 2][1] = "PLUS"

----------------------------------------------------------------------------
(* Claims about lexer() (SpecLexer)                                        *)

\* the [start, end) spans of the maximal runs of letters and digits that
\* begin with a letter
Runs(s) ==
    {<<i, j>> \in (0..Len(s)) \X (0..Len(s)) :
        /\ i < j
        /\ At(s, i) \in Letters
        /\ \A k \in i..(j - 1) : At(s, k) \in Alnum
        /\ At(s, i - 1) \notin Alnum
        /\ At(s, j) \notin Alnum}

\* the one token the claim gives a run
RunToken(text) ==
    IF \E k \in Keywords : KeywordText(k) = text
    THEN <<CHOOSE k \in Keywords : KeywordText(k) = text, text>>
    ELSE IF text \in {CoTab, CoSpace, CoNewline} THEN <<"CONSTANT", text>>
    ELSE <<"ID", text>>

\* C10: when lexer() returns, every maximal run of letters and digits that
\* begins with a letter is exactly one token spanning the whole run: the
\* keyword, CONSTANT for TAB, SPACE and NEWLINE, and otherwise one ID.
C10_OneTokenPerRun ==
    (trace.op = "lexed" /\ trace.ok) =>
        \A run \in Runs(trace.input_string) :
            \E k \in 1..Len(trace.tokens) :
                /\ trace.spans[k] = run
                /\ trace.tokens[k] =
                      RunToken(Slice(trace.input_string, run[1], run[2]))

====
